---- MODULE Spec2Model ----
(***************************************************************************)
(* valargs: model of Args::parse_raw (src/src/lib.rs:94-127) and of the    *)
(* accessors nth, has_option and option_value (src/src/lib.rs:76-92).      *)
(*                                                                         *)
(* A String is a sequence of one-character strings.  Option<T> is a        *)
(* sequence of length at most one: None is << >>, Some(x) is <<x>>.        *)
(* The HashMap is a function from keys to Option<String>.  The loop index  *)
(* i is zero-based as in the source; raw_args[i] of the source is          *)
(* raw_args[i + 1] here.                                                   *)
(***************************************************************************)
EXTENDS Integers, Sequences, FiniteSets, TLC

\* ---- bounds of the input space ----
\* Short tokens, up to MaxArgs of them.
MaxArgs == 4
MaxTokLen == 2
\* Long tokens, up to MaxLongArgs of them.
MaxLongArgs == 2
MaxLongTokLen == 4

\* The parser only tests for '-': "a" stands for every other character, letter
\* or digit.
Dash == "-"
Chars == {Dash, "a"}

TokensUpTo(n) == UNION {[1..k -> Chars] : k \in 0..n}
ArgsUpTo(n, T) == UNION {[1..k -> T] : k \in 0..n}
Inputs == ArgsUpTo(MaxArgs, TokensUpTo(MaxTokLen))
            \cup ArgsUpTo(MaxLongArgs, TokensUpTo(MaxLongTokLen))

VARIABLES raw_args, i, args, options, pc, classified
vars == <<raw_args, i, args, options, pc, classified>>

\* ---- Option<T> ----
None == << >>
Some(x) == <<x>>

\* ---- str::starts_with, str::strip_prefix, slice::get ----
starts_with(s, p) == Len(s) >= Len(p) /\ SubSeq(s, 1, Len(p)) = p

strip_prefix(s, p) ==
    IF starts_with(s, p) THEN Some(SubSeq(s, Len(p) + 1, Len(s))) ELSE None

get(v, index) == IF index < Len(v) THEN Some(v[index + 1]) ELSE None

\* let l = raw_args.len();
l == Len(raw_args)

\* Variants of stripped: the "-" prefix tried first; the or_else forgotten.
stripped_single_first(token) ==
    IF strip_prefix(token, <<Dash>>) # None
    THEN strip_prefix(token, <<Dash>>)
    ELSE strip_prefix(token, <<Dash, Dash>>)

stripped_double_only(token) == strip_prefix(token, <<Dash, Dash>>)

\* token.strip_prefix("--").or_else(|| token.strip_prefix("-"))
stripped(token) ==
    IF strip_prefix(token, <<Dash, Dash>>) # None
    THEN strip_prefix(token, <<Dash, Dash>>)
    ELSE strip_prefix(token, <<Dash>>)

\* Variant of param: the filter on the leading '-' forgotten.
param_unfiltered(v, index) == get(v, index + 1)

\* raw_args.get(i + 1).map(|s| s.to_owned()).filter(|s| !s.starts_with("-"))
param(v, index) ==
    LET next == get(v, index + 1)
    IN  IF next # None /\ ~starts_with(next[1], <<Dash>>) THEN next ELSE None

\* Variants of advance: the value is never skipped; the next token is always
\* skipped.
advance_no_skip(index, p) == index + 1

advance_always_skip(index, p) == index + 2

\* if param.is_some() { i += 1; }  ...  i += 1;
advance(index, p) == IF p # None THEN index + 2 ELSE index + 1

\* HashMap::new, HashMap::insert
EmptyMap == [k \in {} |-> None]

\* Variant of insert: an existing entry is kept (entry().or_insert()).
insert_keep_first(map, key, value) ==
    [k \in DOMAIN map \cup {key} |-> IF k \in DOMAIN map THEN map[k] ELSE value]

insert(map, key, value) ==
    [k \in DOMAIN map \cup {key} |-> IF k = key THEN value ELSE map[k]]

\* Variant of push: the element is put in front.
push_front(v, x) == <<x>> \o v

\* Vec::push
push(v, x) == Append(v, x)

\* ---- accessors on the finished Args ----
nth(index) == get(args, index)

\* Variant of has_option: an option without a value is reported as missing.
has_option_with_value(option_name) ==
    option_name \in DOMAIN options /\ options[option_name] # None

has_option(option_name) == option_name \in DOMAIN options

option_value(option_name) ==
    IF option_name \in DOMAIN options THEN options[option_name] ELSE None

\* ---- the state machine ----
\* State on first reaching the loop head: l read, args and options empty, i = 0.
\* classified is a history variable: which input index was consumed as what.
Init ==
    /\ raw_args \in Inputs
    /\ i = 0
    /\ args = << >>
    /\ options = EmptyMap
    /\ pc = "loop"
    /\ classified = {}

\* One iteration taking the `if let Some(stripped)` branch.
ParseOption ==
    /\ pc = "loop"
    /\ i < l
    /\ LET token == raw_args[i + 1]
           name == stripped(token)
           p == param(raw_args, i)
       IN  /\ name # None
           /\ options' = insert(options, name[1], p)
           /\ i' = advance(i, p)
           /\ classified' = classified
                \cup {[idx |-> i, as |-> "name"]}
                \cup (IF p # None THEN {[idx |-> i + 1, as |-> "value"]} ELSE {})
    /\ UNCHANGED <<raw_args, args, pc>>

\* One iteration taking the else branch.
ParseArgument ==
    /\ pc = "loop"
    /\ i < l
    /\ LET token == raw_args[i + 1]
       IN  /\ stripped(token) = None
           /\ args' = push(args, token)
           /\ i' = advance(i, None)
           /\ classified' = classified \cup {[idx |-> i, as |-> "positional"]}
    /\ UNCHANGED <<raw_args, options, pc>>

\* Loop exit: Args { args, options }.
Return ==
    /\ pc = "loop"
    /\ ~(i < l)
    /\ pc' = "done"
    /\ UNCHANGED <<raw_args, i, args, options, classified>>

Next == ParseOption \/ ParseArgument \/ Return

Spec == Init /\ [][Next]_vars

\* The loop is sequential code: an enabled step is eventually taken.
FairSpec == Spec /\ WF_vars(Next)

\* ---- vocabulary of the properties, written from the input alone ----
IsDash(t) == Len(t) >= 1 /\ t[1] = Dash
Drop(t, n) == [k \in 1..(Len(t) - n) |-> t[k + n]]
ExpectedName(t) ==
    IF Len(t) >= 2 /\ t[1] = Dash /\ t[2] = Dash THEN Drop(t, 2) ELSE Drop(t, 1)
\* One-based positions of the input.
Markers == {k \in 1..l : IsDash(raw_args[k])}
FollowsMarker(k) == k > 1 /\ IsDash(raw_args[k - 1])
ExpectedValue(k) ==
    IF k < l /\ ~IsDash(raw_args[k + 1]) THEN Some(raw_args[k + 1]) ELSE None
Occurrences(name) == {k \in Markers : ExpectedName(raw_args[k]) = name}
Last(S) == CHOOSE k \in S : \A m \in S : m <= k
ClassifiedAs(c) == {e \in classified : e.as = c}
QueryNames == TokensUpTo(MaxLongTokLen)

\* C1: every input index below the loop index is classified exactly once (as
\* option name, option value or positional), no index at or above it is
\* classified, and on exit names + values + positionals = input length.
C1_EveryTokenClassifiedOnce ==
    /\ \A k \in 0..(l - 1) :
          Cardinality({e \in classified : e.idx = k}) = IF k < i THEN 1 ELSE 0
    /\ \A e \in classified : e.idx \in 0..(l - 1)
    /\ Cardinality(ClassifiedAs("positional")) = Len(args)
    /\ pc = "done" =>
          Cardinality(ClassifiedAs("name")) + Cardinality(ClassifiedAs("value"))
            + Len(args) = l

C1_Witness ==
    /\ pc = "done"
    /\ ClassifiedAs("name") # {}
    /\ ClassifiedAs("value") # {}
    /\ ClassifiedAs("positional") # {}
    /\ \E e \in ClassifiedAs("name") : [idx |-> e.idx + 1, as |-> "name"] \in classified

\* C2: an option marker at index i takes token i+1 as its value and skips it
\* when that token exists and does not begin with '-'; otherwise the option is
\* recorded without a value and token i+1 is the next one to be classified.
\* Two markers in a row: both are options and the first has no value.
C2_MarkerStep ==
    (pc = "loop" /\ i < l /\ IsDash(raw_args[i + 1])) =>
        LET name == ExpectedName(raw_args[i + 1])
        IN  /\ name \in DOMAIN options'
            /\ args' = args
            /\ IF i + 1 < l /\ ~IsDash(raw_args[i + 2])
               THEN options'[name] = Some(raw_args[i + 2]) /\ i' = i + 2
               ELSE options'[name] = None /\ i' = i + 1

C2_TwoMarkers ==
    (pc = "done" /\ l = 2 /\ IsDash(raw_args[1]) /\ IsDash(raw_args[2])) =>
        /\ has_option(ExpectedName(raw_args[1]))
        /\ option_value(ExpectedName(raw_args[1])) = None
        /\ has_option(ExpectedName(raw_args[2]))

C2_ValueConsumedOrAbsent == [][C2_MarkerStep]_vars /\ []C2_TwoMarkers

C2_Witness ==
    /\ pc = "done"
    /\ raw_args = << <<Dash, Dash, "a">>, <<Dash, Dash, "a", "a">> >>
    /\ has_option(<<"a">>)
    /\ option_value(<<"a">>) = None
    /\ has_option(<<"a", "a">>)

\* C3: on exit the entry of every option name reflects the last marker with
\* that name only: its value is the value taken by that last marker, absent if
\* that marker took none, whatever earlier occurrences took.
C3_LastOccurrenceWins ==
    pc = "done" =>
        \A name \in QueryNames :
            Occurrences(name) # {} =>
                /\ name \in DOMAIN options
                /\ option_value(name) = ExpectedValue(Last(Occurrences(name)))

C3_Witness ==
    /\ pc = "done"
    /\ raw_args = << <<Dash, "a">>, <<"a">>, <<Dash, "a">>, <<"a", "a">> >>
    /\ option_value(<<"a">>) = Some(<<"a", "a">>)

\* C4: the name recorded for a marker is the token minus exactly two leading
\* characters when it begins with "--", else minus exactly one; no other key
\* is added by the step.
C4_MarkerName ==
    (pc = "loop" /\ i < l /\ IsDash(raw_args[i + 1])) =>
        DOMAIN options' = DOMAIN options \cup {ExpectedName(raw_args[i + 1])}

C4_NameIsTokenMinusPrefix == [][C4_MarkerName]_vars

C4_Witness ==
    /\ pc = "done"
    /\ raw_args = << <<Dash, Dash, Dash, "a">>, <<Dash, Dash>> >>
    /\ DOMAIN options = {<<Dash, "a">>, << >>}

\* C5: nth(0) of the result is element 0 of every non-empty input.
C5_NthZeroIsProgramName ==
    (pc = "done" /\ l > 0) => nth(0) = Some(raw_args[1])

\* C6: on exit the positional sequence is the in-order subsequence of the
\* tokens that neither begin with '-' nor directly follow a token beginning
\* with '-'; nth(k) is its k-th element, absent for k at or above its length.
PositionalIdx == {k \in 1..l : ~IsDash(raw_args[k]) /\ ~FollowsMarker(k)}
KthPositional(k) ==
    CHOOSE j \in PositionalIdx : Cardinality({m \in PositionalIdx : m < j}) = k

C6_PositionalSubsequence ==
    pc = "done" =>
        /\ Len(args) = Cardinality(PositionalIdx)
        /\ \A k \in 0..(l + 1) :
              nth(k) = IF k < Cardinality(PositionalIdx)
                       THEN Some(raw_args[KthPositional(k)])
                       ELSE None

C6_Witness ==
    /\ pc = "done"
    /\ Len(args) >= 2
    /\ Len(args) < l
    /\ args[1] # args[2]
    /\ nth(1) = Some(args[2])
    /\ nth(Len(args)) = None

\* C7: has_option(name) holds exactly for the keys of the options mapping,
\* which are the stripped names of the input's markers; option_value(name) is
\* the stored value when there is one and absent otherwise; a present
\* option_value implies has_option.
C7_Accessors ==
    pc = "done" =>
        \A name \in QueryNames :
            /\ has_option(name) <=> name \in DOMAIN options
            /\ has_option(name) <=> Occurrences(name) # {}
            /\ option_value(name) =
                  IF name \in DOMAIN options /\ options[name] # None
                  THEN options[name] ELSE None
            /\ option_value(name) # None => has_option(name)

C7_Witness ==
    /\ pc = "done"
    /\ \E n1, n2, n3 \in QueryNames :
          /\ has_option(n1) /\ option_value(n1) = None
          /\ has_option(n2) /\ option_value(n2) # None
          /\ ~has_option(n3) /\ option_value(n3) = None
          /\ \E k \in Markers : raw_args[k] = n3

\* C8: the loop exits for every input; the index never passes the input
\* length, grows by 1 or 2 on every iteration, by 2 only when index+1 is
\* inside the input, and is the input length when the loop exits; the empty
\* input gives no positional and no option.
C8_IndexInRange ==
    /\ i \in 0..l
    /\ pc = "done" => i = l
    /\ (pc = "done" /\ l = 0) => (args = << >> /\ DOMAIN options = {})

C8_IndexStep ==
    /\ pc = "loop" /\ i < l => (i' \in {i + 1, i + 2} /\ pc' = "loop")
    /\ i' = i + 2 => i + 1 < l
    /\ pc = "loop" /\ i >= l => (i = l /\ i' = i /\ pc' = "done")

C8_Terminates == <>(pc = "done") /\ []C8_IndexInRange /\ [][C8_IndexStep]_vars

C8_Witness ==
    /\ pc = "done"
    /\ l >= 3
    /\ \E e \in classified : e.as = "value" /\ e.idx = l - 1

\* C10: no positional element and no stored option value begins with '-';
\* on exit every input token beginning with '-' is an option under its
\* stripped name.
C10_DashTokensAreOptions ==
    /\ \A k \in 1..Len(args) : ~IsDash(args[k])
    /\ \A name \in DOMAIN options :
          options[name] # None => ~IsDash(options[name][1])
    /\ pc = "done" => \A k \in Markers : has_option(ExpectedName(raw_args[k]))

C10_Witness ==
    /\ pc = "done"
    /\ Len(args) > 0
    /\ \E name \in DOMAIN options : options[name] # None
    /\ \E k \in Markers : k > 1 /\ IsDash(raw_args[k - 1])

====
